---------------------------- MODULE Spec2Model ----------------------------
(***************************************************************************)
(* The social-ads-analytics pipeline: main.py (Pipeline Runner),           *)
(* src/collector.py (Collectors), src/meta_client.py (Token Resolver and   *)
(* Metric Fetchers) and src/loaders/bigquery_loader.py (Warehouse Loader). *)
(*                                                                         *)
(* One run of main() is a sequence of blocking calls to the outside world: *)
(* HTTP GETs (requests.get) and warehouse appends (pandas_gbq.to_gbq).     *)
(* Each action below is one such call together with all the code that runs *)
(* up to the next one; what the outside world answers is the action's      *)
(* nondeterministic input.                                                 *)
(***************************************************************************)
EXTENDS Integers, Sequences, FiniteSets, TLC

VARIABLES
    pc,            \* where main() stands: the next blocking call, "done" or "failed"
    error,         \* the exception that ended the run ("" while none)
    now,           \* the wall clock, epoch seconds
    metrics,       \* the metrics / timeframes / dimensions lists given to
    timeframes,    \*   collect_demographics
    dimensions,
    pages,         \* get_page_token's pages (the /me/accounts listing), <<>> outside it
    page_token,    \* main's page_token
    extracted_at,  \* main's extracted_at
    captures,      \* how many times main read the clock for extracted_at
    idx,           \* the running collector's loop position (product / metrics index)
    rows,          \* the running collector's rows list
    calls,         \* the fetch calls of the running collector: what was asked, what came back
    locals,        \* the running collector's locals set before its first request:
                   \*   metric_date (or yesterday), a day, and extracted_at
    info,          \* collect_ads_spend_yesterday's info (the ad-account-info response)
    df,            \* the table the running step produced
    requests,      \* every GET issued so far: the fetcher and the status answered
    collectors,    \* every collector main called so far: its name, whether it is
                   \*   running, returned or raised, and the rows it returned
    loads,         \* every call of load_to_bigquery so far: <<table name, table>>
    warehouse,     \* what the destination holds of this run: the appended <<table name, table>>
    budget,        \* rows the API may still return in this run (the model's bound)
    day_window     \* the last call of _day_window_ts: its arguments d and tz_name,
                   \*   and the since and until it returned (None until it returns)

vars == <<pc, error, now, metrics, timeframes, dimensions, pages, page_token,
          extracted_at, captures, idx, rows, calls, locals, info, df, requests,
          collectors, loads, warehouse, budget, day_window>>

-----------------------------------------------------------------------------
(* Bounds of the model *)

\* Rows the API returns over one run, all requests together.
MaxRows == 3

\* Longest metrics / timeframes / dimensions list given to collect_demographics
\* when it is run on its own.
MaxList == 2

\* Pages in the /me/accounts listing.
MaxPages == 2

\* Days on either side of a day on which a zone changes its UTC offset, given
\* to _day_window_ts when it is run on its own.
MaxDays == 2

-----------------------------------------------------------------------------
(* Python values *)

\* None where a number is expected (no epoch second, day or count of the model
\* is negative).
None == 0 - 1

\* None where a string is expected.
NoneStr == "None"

\* A pd.Timestamp / ISO timestamp: the instant and how it was taken.
Timestamp(t, kind) == [t |-> t, kind |-> kind]

NoTimestamp == Timestamp(None, "None")

\* pd.DataFrame(rows): the columns are the keys of the row dicts (none when
\* rows is empty), in the order the collector writes them.
DataFrame(columns, rs) == [columns |-> IF rs = <<>> THEN <<>> ELSE columns, rows |-> rs]

\* pd.DataFrame(columns=[...]): the columns and no row.
EmptyFrame(columns) == [columns |-> columns, rows |-> <<>>]

\* df.empty
IsEmpty(d) == Len(d.rows) = 0

NoFrame == [columns |-> <<>>, rows |-> <<>>]

-----------------------------------------------------------------------------
(* Clock, dates and zones (datetime, zoneinfo) *)

DaySeconds == 86400

\* The UTC offset of a zone at an instant. America/Sao_Paulo is UTC-3 all
\* year. America/Los_Angeles is UTC-8, and UTC-7 from 2026-03-08 10:00 UTC
\* to 2026-11-01 09:00 UTC.
UtcOffsetAt(tz, t) ==
    IF tz = "America/Sao_Paulo" THEN 0 - 10800
    ELSE IF tz = "America/Los_Angeles"
         THEN IF t >= 1772964000 /\ t < 1793523600 THEN 0 - 25200 ELSE 0 - 28800
         ELSE 0

\* The UTC offset of a zone at 00:00 wall clock of day d (days since the
\* epoch). Los Angeles changes at 02:00 wall clock, so the midnight of a
\* change day (2026-03-08 is day 20520, 2026-11-01 day 20758) still has the
\* offset of the day before.
UtcOffsetAtMidnight(tz, d) ==
    IF tz = "America/Sao_Paulo" THEN 0 - 10800
    ELSE IF tz = "America/Los_Angeles"
         THEN IF d > 20520 /\ d <= 20758 THEN 0 - 25200 ELSE 0 - 28800
         ELSE 0

\* datetime.now(tz).date(), as days since the epoch.
Today(tz, t) == (t + UtcOffsetAt(tz, t)) \div DaySeconds

\* datetime.now(tz).date() - timedelta(days=1)
Yesterday(tz, t) == Today(tz, t) - 1

\* datetime.combine(d, time(0, 0, 0), tzinfo=tz).timestamp()
MidnightTs(d, tz) == d * DaySeconds - UtcOffsetAtMidnight(tz, d)

\* A helper that adds 86400 elapsed seconds to since instead of one day of
\* wall clock.
_day_window_ts_elapsed(d, tz) == <<MidnightTs(d, tz), MidnightTs(d, tz) + DaySeconds>>

\* _day_window_ts(d, tz_name): since_dt + timedelta(days=1) moves the wall
\* clock to 00:00 of the next day in the same zone.
_day_window_ts(d, tz) == <<MidnightTs(d, tz), MidnightTs(d + 1, tz)>>

\* The instants a run may start at: 2026-11-04 12:00:00 UTC, and
\* 2026-11-04 02:59:35 UTC, 25 seconds before midnight in Sao Paulo, so that
\* the day changes there between two collectors of the run.
StartTimes == {1793793600, 1793761175}


-----------------------------------------------------------------------------
(* Configuration (main.py, environment) *)

DEMOGRAPHICS_METRICS ==
    <<"follower_demographics", "engaged_audience_demographics",
      "reached_audience_demographics">>

TIMEFRAMES == <<"this_week", "this_month">>

DIMENSIONS == <<"city", "age", "gender">>

MEDIA_PRODUCT_METRICS ==
    <<"reach", "likes", "shares", "comments", "saves", "views", "total_interactions">>

\* os.getenv("IG_USER_ID"): set, or the import of meta_client raises.
IG_USER_ID == "ig_target"

\* What os.getenv("META_AD_ACCOUNT_ID") may give when collect_ads_spend_yesterday
\* reads it.
AdAccountIds == {NoneStr, "act_1"}

-----------------------------------------------------------------------------
(* What the outside world may answer *)

\* The i-th result of an insights breakdown: results without
\* dimension_values come at the even places.
ApiResult(kind, i) ==
    [dimension_values |->
         IF i % 2 = 0 THEN <<>>
         ELSE IF kind = "follows" THEN <<"UNKNOWN">>
         ELSE IF kind = "media" THEN <<"REEL">>
         ELSE <<"dv">>,
     value |-> i]

\* An insights response body with n results.
ApiResults(kind, n) == [i \in 1..n |-> ApiResult(kind, i)]

\* The i-th record of an ads insights response: the odd ones carry spend,
\* impressions and clicks, the even ones lack them.
AdsRecord(i, day) ==
    [date_start |-> day,
     spend |-> IF i % 2 = 1 THEN 1250 ELSE None,
     impressions |-> IF i % 2 = 1 THEN 40 ELSE None,
     clicks |-> IF i % 2 = 1 THEN 3 ELSE None]

AdsRecords(n, day) == [i \in 1..n |-> AdsRecord(i, day)]

\* The pages a /me/accounts listing is made of: the page linked to the
\* target account, a page linked to another account, a page with no
\* instagram_business_account, and the target's page without access_token.
Pages ==
    {[ig |-> IG_USER_ID, access_token |-> "tok_target"],
     [ig |-> "ig_other", access_token |-> "tok_other"],
     [ig |-> NoneStr, access_token |-> "tok_plain"],
     [ig |-> IG_USER_ID, access_token |-> NoneStr]}

SeqsUpTo(S, n) == UNION {[1..k -> S] : k \in 0..n}

PageListings == SeqsUpTo(Pages, MaxPages)

\* The account-info responses: with and without currency.
AccountInfos ==
    {[currency |-> "BRL", timezone_name |-> "America/Los_Angeles"],
     [currency |-> NoneStr, timezone_name |-> "America/Los_Angeles"]}

\* The followers-count responses: with the field, and without it.
FollowersResponses ==
    {[has_followers_count |-> TRUE, followers_count |-> 1200],
     [has_followers_count |-> FALSE, followers_count |-> None]}

-----------------------------------------------------------------------------
(* Token Resolver and Metric Fetchers (src/meta_client.py) *)

\* The index of the first page linked to ig_user_id, 0 when there is none.
RECURSIVE FirstMatch(_, _, _)
FirstMatch(pages_json, ig_user_id, i) ==
    IF i > Len(pages_json) THEN 0
    ELSE IF pages_json[i].ig # NoneStr /\ pages_json[i].ig = ig_user_id THEN i
    ELSE FirstMatch(pages_json, ig_user_id, i + 1)

\* get_page_access_token_for_ig without the test of instagram_business_account:
\* the token of the first page listed.
get_page_access_token_for_ig_first(pages_json, ig_user_id) ==
    IF Len(pages_json) = 0
    THEN [ok |-> FALSE, token |-> NoneStr, error |-> "RuntimeError: page token not found"]
    ELSE IF pages_json[1].access_token = NoneStr
    THEN [ok |-> FALSE, token |-> NoneStr, error |-> "KeyError: access_token"]
    ELSE [ok |-> TRUE, token |-> pages_json[1].access_token, error |-> ""]

\* get_page_access_token_for_ig: [ok, token, error].
get_page_access_token_for_ig(pages_json, ig_user_id) ==
    LET i == FirstMatch(pages_json, ig_user_id, 1) IN
    IF i = 0
    THEN [ok |-> FALSE, token |-> NoneStr, error |-> "RuntimeError: page token not found"]
    ELSE IF pages_json[i].access_token = NoneStr
    THEN [ok |-> FALSE, token |-> NoneStr, error |-> "KeyError: access_token"]
    ELSE [ok |-> TRUE, token |-> pages_json[i].access_token, error |-> ""]

\* The flattening of get_demo: one row per result, a missing
\* dimension_values giving a None dimension_value.
FlattenDemo(results) ==
    [i \in 1..Len(results) |->
        [dimension_value |->
             IF results[i].dimension_values = <<>> THEN NoneStr
             ELSE results[i].dimension_values[1],
         value |-> results[i].value]]

\* The flattening of get_day_totals_by_media_product.
FlattenMedia(results) ==
    [i \in 1..Len(results) |->
        [media_product_type |->
             IF results[i].dimension_values = <<>> THEN NoneStr
             ELSE results[i].dimension_values[1],
         value |-> results[i].value]]

\* The flattening of get_follows_and_unfollows_by_day.
FlattenFollows(results) ==
    [i \in 1..Len(results) |->
        [follow_type |->
             IF results[i].dimension_values = <<>> THEN NoneStr
             ELSE results[i].dimension_values[1],
         value |-> results[i].value]]


-----------------------------------------------------------------------------
(* Collectors (src/collector.py) *)

\* extracted_at as a collector uses it: the argument, or the collector's own
\* clock reading when the argument is None.
OrDefault(extracted_at_arg, default) ==
    IF extracted_at_arg = NoTimestamp THEN default ELSE extracted_at_arg

\* The i-th element (from 1) of itertools.product(ms, ts, ds).
ProductAt(ms, ts, ds, i) ==
    LET k == i - 1
        T == Len(ts)
        D == Len(ds)
    IN [metric |-> ms[(k \div (T * D)) + 1],
        timeframe |-> ts[((k \div D) % T) + 1],
        dimension |-> ds[(k % D) + 1]]

ProductLen(ms, ts, ds) == Len(ms) * Len(ts) * Len(ds)

HasDimensionValue(r) == r.dimension_value # NoneStr

\* collect_demographics skipping the results that have no dimension_value.
DemoRows_skip_null(triple, data) ==
    LET kept == SelectSeq(data, HasDimensionValue) IN
    [i \in 1..Len(kept) |->
        [metric |-> triple.metric,
         timeframe |-> triple.timeframe,
         dimension |-> triple.dimension,
         dimension_value |-> kept[i].dimension_value,
         value |-> kept[i].value]]

\* collect_demographics, the inner loop: the rows appended for one
\* (metric, timeframe, dimension) and the data get_demo returned for it.
DemoRows(triple, data) ==
    [i \in 1..Len(data) |->
        [metric |-> triple.metric,
         timeframe |-> triple.timeframe,
         dimension |-> triple.dimension,
         dimension_value |-> data[i].dimension_value,
         value |-> data[i].value]]

DemoColumns == <<"metric", "timeframe", "dimension", "dimension_value", "value">>

\* collect_day_media_product, the inner loop, with since = until = None.
MediaRows(metric, data, date, extracted_at_arg, since, until) ==
    [i \in 1..Len(data) |->
        [metric_date |-> date,
         metric |-> metric,
         period |-> "day",
         metric_type |-> "total_value",
         breakdown |-> "media_product_type",
         extracted_at |-> extracted_at_arg,
         since |-> since,
         until |-> until,
         dimension_value |-> data[i].media_product_type,
         value |-> data[i].value]]

MediaColumns ==
    <<"metric_date", "metric", "period", "metric_type", "breakdown", "extracted_at",
      "since", "until", "dimension_value", "value">>

\* collect_day_media_product's metric_date: the day of since in the zone, or
\* yesterday in the zone when since is None.
MediaMetricDate(since, tz, t) ==
    IF since # None THEN (since + UtcOffsetAt(tz, since)) \div DaySeconds
    ELSE Yesterday(tz, t)

\* collect_follows_unfollows_yesterday without its zero rows.
ZeroFill_missing(data) == data

\* collect_follows_unfollows_yesterday: no event on the day gives the two zero rows.
ZeroFill(data) ==
    IF data = <<>>
    THEN <<[follow_type |-> "FOLLOWER", value |-> 0],
           [follow_type |-> "NON_FOLLOWER", value |-> 0]>>
    ELSE data

FollowsColumns ==
    <<"metric_date", "metric", "follow_type", "value", "since", "until", "extracted_at">>

\* collect_follows_unfollows_yesterday, after the fetch: the table from the
\* data, yesterday, its window and extracted_at.
FollowsFrame(data, yesterday, window, ts) ==
    LET filled == ZeroFill(data) IN
    [columns |-> FollowsColumns,
     rows |-> [i \in 1..Len(filled) |->
                 [metric_date |-> yesterday,
                  metric |-> "follows_and_unfollows",
                  follow_type |-> filled[i].follow_type,
                  value |-> filled[i].value,
                  since |-> window[1],
                  until |-> window[2],
                  extracted_at |-> ts]]]

FollowersColumns == <<"metric_date", "ig_user_id", "followers_count", "extracted_at">>

\* collect_followers_snapshot_daily, after the fetch: the one-row table.
FollowersFrame(followers, date, ts) ==
    DataFrame(FollowersColumns,
              <<[metric_date |-> date,
                 ig_user_id |-> IG_USER_ID,
                 followers_count |-> followers,
                 extracted_at |-> ts]>>)

AdsColumns ==
    <<"metric_date", "ad_account_id", "level", "currency", "timezone_name", "spend",
      "impressions", "clicks", "extracted_at">>

\* x or 0
OrZero(x) == IF x = None THEN 0 ELSE x

\* collect_ads_spend_yesterday without its "if not data" branch:
\* pd.DataFrame(rows) of no row has no column.
AdsFrame_no_schema(data, ad_account_id, account_info, ts) ==
    DataFrame(AdsColumns,
        [i \in 1..Len(data) |->
            [metric_date |-> data[i].date_start,
             ad_account_id |-> ad_account_id,
             level |-> "account",
             currency |-> account_info.currency,
             timezone_name |-> account_info.timezone_name,
             spend |-> OrZero(data[i].spend),
             impressions |-> OrZero(data[i].impressions),
             clicks |-> OrZero(data[i].clicks),
             extracted_at |-> ts]])

\* collect_ads_spend_yesterday, after the fetches: the empty table with its
\* columns when there is no data, else one row per record.
AdsFrame(data, ad_account_id, account_info, ts) ==
    IF data = <<>> THEN EmptyFrame(AdsColumns)
    ELSE DataFrame(AdsColumns,
             [i \in 1..Len(data) |->
                 [metric_date |-> data[i].date_start,
                  ad_account_id |-> ad_account_id,
                  level |-> "account",
                  currency |-> account_info.currency,
                  timezone_name |-> account_info.timezone_name,
                  spend |-> OrZero(data[i].spend),
                  impressions |-> OrZero(data[i].impressions),
                  clicks |-> OrZero(data[i].clicks),
                  extracted_at |-> ts]])


-----------------------------------------------------------------------------
(* Pipeline Runner (main.py), Warehouse Loader, and the run as a state machine *)

NoLocals == [metric_date |-> None, extracted_at |-> NoTimestamp]

NoInfo == [ad_account_id |-> NoneStr, currency |-> NoneStr, timezone_name |-> NoneStr]

NoWindow == [d |-> None, tz_name |-> NoneStr, since |-> None, until |-> None]

\* The state after construction: nothing fetched, nothing loaded.
InitRun ==
    /\ error = ""
    /\ now \in StartTimes
    /\ pages = <<>>
    /\ extracted_at = NoTimestamp
    /\ captures = 0
    /\ rows = <<>>
    /\ calls = <<>>
    /\ locals = NoLocals
    /\ info = NoInfo
    /\ df = NoFrame
    /\ requests = <<>>
    /\ collectors = <<>>
    /\ loads = <<>>
    /\ warehouse = <<>>
    /\ budget = MaxRows

\* main() is called with the configured lists.
Init ==
    /\ InitRun
    /\ pc = "get_pages"
    /\ page_token = NoneStr
    /\ idx = 0
    /\ day_window = NoWindow
    /\ metrics = DEMOGRAPHICS_METRICS
    /\ timeframes = TIMEFRAMES
    /\ dimensions = DIMENSIONS

\* An exception nobody catches: the process ends.
Raise(e) == pc' = "failed" /\ error' = e

\* r.raise_for_status()
Statuses == {"2xx", "non-2xx"}

\* A GET that is sent again once when the answer is not 2xx.
Get_retry(fetcher, status) ==
    /\ requests' =
          IF status = "non-2xx"
          THEN requests \o <<[fetcher |-> fetcher, status |-> status],
                             [fetcher |-> fetcher, status |-> status]>>
          ELSE Append(requests, [fetcher |-> fetcher, status |-> status])
    /\ now' = now + 1

\* requests.get(url, params=params, timeout=60): one GET, answered with a
\* status; the clock moves on.
Get(fetcher, status) ==
    /\ requests' = Append(requests, [fetcher |-> fetcher, status |-> status])
    /\ now' = now + 1

\* main calls a collector (or is in it already).
Enter(name) ==
    IF collectors # <<>> /\ collectors[Len(collectors)].name = name
    THEN collectors
    ELSE Append(collectors, [name |-> name, result |-> "running", nrows |-> None])

\* The collector main is in returns a table of n rows, or raises.
Ended(name, result, n) ==
    LET cs == Enter(name) IN
    [cs EXCEPT ![Len(cs)] = [name |-> name, result |-> result, nrows |-> n]]

\* main forgetting extracted_at=extracted_at in one call.
ExtractedAtArg_forgotten(collector) ==
    IF collector = "followers" THEN NoTimestamp ELSE extracted_at

\* The extracted_at argument main gives to a collector.
ExtractedAtArg(collector) == extracted_at

\* df_demo["extracted_at"] = extracted_at
Stamp(d, ts) ==
    [columns |-> Append(d.columns, "extracted_at"),
     rows |-> [i \in 1..Len(d.rows) |->
                 [metric |-> d.rows[i].metric,
                  timeframe |-> d.rows[i].timeframe,
                  dimension |-> d.rows[i].dimension,
                  dimension_value |-> d.rows[i].dimension_value,
                  value |-> d.rows[i].value,
                  extracted_at |-> ts]]]

\* main, from the return of collect_demographics to the load.
main_demographics(d) ==
    LET df_demo == Stamp(d, extracted_at) IN
    /\ df' = df_demo
    /\ IF IsEmpty(df_demo)
       THEN Raise("RuntimeError: Demographics veio vazio")
       ELSE pc' = "load_demographics" /\ error' = error

\* main, from the return of collect_day_media_product to the load.
main_media(d) ==
    /\ df' = d
    /\ IF IsEmpty(d)
       THEN Raise("RuntimeError: Media product veio vazio")
       ELSE pc' = "load_media" /\ error' = error

\* main, from the return of collect_follows_unfollows_yesterday to the load:
\* both branches of the test only print, and the load follows either.
main_follows(d) ==
    /\ df' = d
    /\ error' = error
    /\ IF IsEmpty(d)
       THEN pc' = "load_follows"
       ELSE pc' = "load_follows"

\* main_followers without the test of df_followers.empty.
main_followers_no_abort(d) ==
    /\ df' = d
    /\ error' = error
    /\ pc' = "load_followers"

\* main, from the return of collect_followers_snapshot_daily to the load.
main_followers(d) ==
    /\ df' = d
    /\ IF IsEmpty(d)
       THEN Raise("RuntimeError: Followers snapshot veio vazio")
       ELSE pc' = "load_followers" /\ error' = error

\* main_ads without the test of df_ads.empty: the table is loaded either way.
main_ads_load_always(d) ==
    /\ df' = d
    /\ error' = error
    /\ pc' = "load_ads"

\* main, from the return of collect_ads_spend_yesterday: no load of an empty
\* table, and the run ends well.
main_ads(d) ==
    /\ df' = d
    /\ error' = error
    /\ IF IsEmpty(d)
       THEN pc' = "done"
       ELSE pc' = "load_ads"

\* A loader that undoes the run's earlier appends when an append fails.
load_to_bigquery_rollback(table, next) ==
    /\ now' = now + 1
    /\ loads' = Append(loads, <<table, df>>)
    /\ \E appended \in BOOLEAN :
          IF appended
          THEN /\ warehouse' = Append(warehouse, <<table, df>>)
               /\ pc' = next
               /\ error' = error
          ELSE /\ warehouse' = <<>>
               /\ Raise("GenericGBQException")
    /\ idx' = 1
    /\ rows' = <<>>
    /\ calls' = <<>>
    /\ locals' = NoLocals
    /\ UNCHANGED <<day_window, metrics, timeframes, dimensions, pages, page_token, extracted_at,
                   captures, info, df, requests, collectors, budget>>

\* load_to_bigquery(df, ..., table): pandas_gbq.to_gbq appends the table, or
\* raises; then main goes on to the next collector.
load_to_bigquery(table, next) ==
    /\ now' = now + 1
    /\ loads' = Append(loads, <<table, df>>)
    /\ \E appended \in BOOLEAN :
          IF appended
          THEN /\ warehouse' = Append(warehouse, <<table, df>>)
               /\ pc' = next
               /\ error' = error
          ELSE /\ warehouse' = warehouse
               /\ Raise("GenericGBQException")
    /\ idx' = 1
    /\ rows' = <<>>
    /\ calls' = <<>>
    /\ locals' = NoLocals
    /\ UNCHANGED <<day_window, metrics, timeframes, dimensions, pages, page_token, extracted_at,
                   captures, info, df, requests, collectors, budget>>

LoadDemographics ==
    /\ pc = "load_demographics"
    /\ load_to_bigquery("fact_instagram_demographics", "media")

LoadMedia ==
    /\ pc = "load_media"
    /\ load_to_bigquery("fact_instagram_media_product_24h", "follows")

LoadFollows ==
    /\ pc = "load_follows"
    /\ load_to_bigquery("fact_instagram_follows_unfollows_day", "followers")

LoadFollowers ==
    /\ pc = "load_followers"
    /\ load_to_bigquery("fact_instagram_account_daily", "ads_info")

LoadAds ==
    /\ pc = "load_ads"
    /\ load_to_bigquery("fact_ads_daily", "done")

\* get_pages: the GET of /me/accounts.
GetPages ==
    /\ pc = "get_pages"
    /\ \E status \in Statuses, listing \in PageListings :
          /\ Get("get_pages", status)
          /\ IF status = "non-2xx"
             THEN Raise("HTTPError") /\ pages' = pages
             ELSE pc' = "resolve" /\ error' = error /\ pages' = listing
    /\ UNCHANGED <<day_window, metrics, timeframes, dimensions, page_token, extracted_at, captures,
                   idx, rows, calls, locals, info, df, collectors, loads, warehouse,
                   budget>>

\* get_page_token's second line, and main's extracted_at = pd.Timestamp.now(tz="UTC").
ResolvePageToken ==
    /\ pc = "resolve"
    /\ LET r == get_page_access_token_for_ig(pages, IG_USER_ID) IN
       IF r.ok
       THEN /\ page_token' = r.token
            /\ extracted_at' = Timestamp(now, "utc")
            /\ captures' = captures + 1
            /\ pc' = "demographics"
            /\ error' = error
            /\ idx' = 1
       ELSE /\ Raise(r.error)
            /\ UNCHANGED <<page_token, extracted_at, captures, idx>>
    /\ pages' = <<>>
    /\ UNCHANGED <<day_window, now, metrics, timeframes, dimensions, rows, calls, locals, info, df,
                   requests, collectors, loads, warehouse, budget>>


\* get_followers_count without the test of the field: data.get("followers_count").
get_followers_count_unchecked(data) ==
    [ok |-> TRUE, followers |-> data.followers_count, error |-> ""]

\* get_followers_count, after the GET: [ok, followers, error].
get_followers_count(data) ==
    IF ~data.has_followers_count
    THEN [ok |-> FALSE, followers |-> None, error |-> "RuntimeError: followers_count missing"]
    ELSE [ok |-> TRUE, followers |-> data.followers_count, error |-> ""]

\* One turn of collect_demographics' loop: get_demo for the idx-th element
\* of the product, and the rows appended for what it returned (n results).
\* Gives the rows list after the turn.
DemoTurn(n) ==
    LET triple == ProductAt(metrics, timeframes, dimensions, idx)
        data == FlattenDemo(ApiResults("demo", n))
    IN  rows \o DemoRows(triple, data)

\* The record of that call: what was asked, what get_demo returned.
DemoCall(n) ==
    [triple |-> ProductAt(metrics, timeframes, dimensions, idx),
     page_token |-> page_token,
     returned |-> FlattenDemo(ApiResults("demo", n))]

\* main in collect_demographics: one get_demo; after the last one the table
\* is returned to main.
DemoFetch ==
    /\ pc = "demographics"
    /\ \E status \in Statuses, n \in 0..budget :
          /\ Get("get_demo", status)
          /\ IF status = "non-2xx"
             THEN /\ Raise("HTTPError")
                  /\ collectors' = Ended("demographics", "raised", None)
                  /\ UNCHANGED <<idx, rows, calls, df, budget>>
             ELSE /\ budget' = budget - n
                  /\ rows' = DemoTurn(n)
                  /\ calls' = Append(calls, DemoCall(n))
                  /\ IF idx < ProductLen(metrics, timeframes, dimensions)
                     THEN /\ idx' = idx + 1
                          /\ collectors' = Enter("demographics")
                          /\ UNCHANGED <<pc, error, df>>
                     ELSE /\ idx' = idx
                          /\ collectors' =
                                Ended("demographics", "returned", Len(DemoTurn(n)))
                          /\ main_demographics(DataFrame(DemoColumns, DemoTurn(n)))
    /\ UNCHANGED <<day_window, metrics, timeframes, dimensions, pages, page_token, extracted_at,
                   captures, locals, info, loads, warehouse>>

\* collect_day_media_product's locals, set before its loop: main gives
\* since = until = None and no tz_name.
MediaLocals ==
    [metric_date |-> MediaMetricDate(None, "America/Sao_Paulo", now),
     extracted_at |-> OrDefault(ExtractedAtArg("media"), Timestamp(now, "isoformat"))]

\* main in collect_day_media_product: one get_day_totals_by_media_product;
\* after the last one the table is returned to main.
MediaFetch ==
    /\ pc = "media"
    /\ LET loc == IF idx = 1 THEN MediaLocals ELSE locals IN
       \E status \in Statuses, n \in 0..budget :
          /\ Get("get_day_totals_by_media_product", status)
          /\ IF status = "non-2xx"
             THEN /\ Raise("HTTPError")
                  /\ collectors' = Ended("media", "raised", None)
                  /\ UNCHANGED <<idx, rows, locals, df, budget>>
             ELSE LET data == FlattenMedia(ApiResults("media", n))
                      after == rows \o MediaRows(MEDIA_PRODUCT_METRICS[idx], data,
                                                 loc.metric_date, loc.extracted_at,
                                                 None, None)
                  IN /\ budget' = budget - n
                     /\ rows' = after
                     /\ locals' = loc
                     /\ IF idx < Len(MEDIA_PRODUCT_METRICS)
                        THEN /\ idx' = idx + 1
                             /\ collectors' = Enter("media")
                             /\ UNCHANGED <<pc, error, df>>
                        ELSE /\ idx' = idx
                             /\ collectors' = Ended("media", "returned", Len(after))
                             /\ main_media(DataFrame(MediaColumns, after))
    /\ UNCHANGED <<day_window, metrics, timeframes, dimensions, pages, page_token,
                   extracted_at, captures, calls, info, loads, warehouse>>

\* main in collect_follows_unfollows_yesterday: the window of yesterday in
\* America/Sao_Paulo, one get_follows_and_unfollows_by_day, the table.
FollowsFetch ==
    /\ pc = "follows"
    /\ LET ts == OrDefault(ExtractedAtArg("follows"), Timestamp(now, "utcnow"))
           yesterday == Yesterday("America/Sao_Paulo", now)
           window == _day_window_ts(yesterday, "America/Sao_Paulo")
       IN
       \E status \in Statuses, n \in 0..budget :
          /\ Get("get_follows_and_unfollows_by_day", status)
          /\ IF status = "non-2xx"
             THEN /\ Raise("HTTPError")
                  /\ collectors' = Ended("follows", "raised", None)
                  /\ UNCHANGED <<calls, locals, df, budget>>
             ELSE LET data == FlattenFollows(ApiResults("follows", n))
                      table == FollowsFrame(data, yesterday, window, ts)
                  IN /\ budget' = budget - n
                     /\ calls' = <<[since |-> window[1], until |-> window[2],
                                    page_token |-> page_token, returned |-> data]>>
                     /\ locals' = [metric_date |-> yesterday, extracted_at |-> ts]
                     /\ collectors' = Ended("follows", "returned", Len(table.rows))
                     /\ main_follows(table)
          /\ day_window' = [d |-> yesterday, tz_name |-> "America/Sao_Paulo",
                            since |-> window[1], until |-> window[2]]
    /\ UNCHANGED <<metrics, timeframes, dimensions, pages, page_token, extracted_at,
                   captures, idx, rows, info, loads, warehouse>>

\* main in collect_followers_snapshot_daily: today in America/Sao_Paulo, one
\* get_followers_count, the one-row table.
FollowersFetch ==
    /\ pc = "followers"
    /\ LET ts == OrDefault(ExtractedAtArg("followers"), Timestamp(now, "utcnow"))
           date == Today("America/Sao_Paulo", now)
       IN
       \E status \in Statuses, data \in FollowersResponses :
          /\ Get("get_followers_count", status)
          /\ IF status = "non-2xx"
             THEN /\ Raise("HTTPError")
                  /\ collectors' = Ended("followers", "raised", None)
                  /\ UNCHANGED <<calls, locals, df>>
             ELSE LET r == get_followers_count(data)
                      table == FollowersFrame(r.followers, date, ts)
                  IN /\ calls' = <<[returned |-> data]>>
                     /\ locals' = [metric_date |-> date, extracted_at |-> ts]
                     /\ IF r.ok
                        THEN /\ collectors' =
                                   Ended("followers", "returned", Len(table.rows))
                             /\ main_followers(table)
                        ELSE /\ collectors' = Ended("followers", "raised", None)
                             /\ Raise(r.error)
                             /\ df' = df
    /\ UNCHANGED <<day_window, metrics, timeframes, dimensions, pages, page_token, extracted_at,
                   captures, idx, rows, info, loads, warehouse, budget>>

\* main in collect_ads_spend_yesterday, up to get_ad_account_info: the
\* account id from the environment, yesterday in America/Los_Angeles, one GET.
AdsInfoFetch ==
    /\ pc = "ads_info"
    /\ \E ad_account_id \in AdAccountIds :
          IF ad_account_id = NoneStr
          THEN /\ Raise("ValueError: META_AD_ACCOUNT_ID")
               /\ collectors' = Ended("ads", "raised", None)
               /\ UNCHANGED <<now, requests, locals, info>>
          ELSE \E status \in Statuses, account \in AccountInfos :
                  /\ Get("get_ad_account_info", status)
                  /\ IF status = "non-2xx"
                     THEN /\ Raise("HTTPError")
                          /\ collectors' = Ended("ads", "raised", None)
                          /\ UNCHANGED <<locals, info>>
                     ELSE /\ pc' = "ads_insights"
                          /\ error' = error
                          /\ collectors' = Enter("ads")
                          /\ locals' =
                                [metric_date |-> Yesterday("America/Los_Angeles", now),
                                 extracted_at |->
                                     OrDefault(ExtractedAtArg("ads"),
                                               Timestamp(now, "utcnow"))]
                          /\ info' = [ad_account_id |-> ad_account_id,
                                      currency |-> account.currency,
                                      timezone_name |-> account.timezone_name]
    /\ UNCHANGED <<day_window, metrics, timeframes, dimensions, pages, page_token, extracted_at,
                   captures, idx, rows, calls, df, loads, warehouse, budget>>

\* main in collect_ads_spend_yesterday, from get_ads_insights_daily on: one
\* GET for [yesterday, today), the table, and main's end.
AdsInsightsFetch ==
    /\ pc = "ads_insights"
    /\ \E status \in Statuses, n \in 0..budget :
          /\ Get("get_ads_insights_daily", status)
          /\ IF status = "non-2xx"
             THEN /\ Raise("HTTPError")
                  /\ collectors' = Ended("ads", "raised", None)
                  /\ UNCHANGED <<calls, df, budget>>
             ELSE LET data == AdsRecords(n, locals.metric_date)
                      table == AdsFrame(data, info.ad_account_id, info,
                                        locals.extracted_at)
                  IN /\ budget' = budget - n
                     /\ calls' = <<[since |-> locals.metric_date,
                                    until |-> locals.metric_date + 1,
                                    returned |-> data]>>
                     /\ collectors' = Ended("ads", "returned", Len(table.rows))
                     /\ main_ads(table)
    /\ UNCHANGED <<day_window, metrics, timeframes, dimensions, pages, page_token, extracted_at,
                   captures, idx, rows, locals, info, loads, warehouse>>

Next ==
    \/ GetPages
    \/ ResolvePageToken
    \/ DemoFetch
    \/ LoadDemographics
    \/ MediaFetch
    \/ LoadMedia
    \/ FollowsFetch
    \/ LoadFollows
    \/ FollowersFetch
    \/ LoadFollowers
    \/ AdsInfoFetch
    \/ AdsInsightsFetch
    \/ LoadAds

Spec == Init /\ [][Next]_vars


-----------------------------------------------------------------------------
(* collect_demographics on its own, over lists of every length up to MaxList *)

\* The first k elements of a list (all of it when it is shorter).
Prefix(list, k) == SubSeq(list, 1, IF k < Len(list) THEN k ELSE Len(list))

TimeframePool == <<"this_week", "this_month", "prev_month">>

InitDemo ==
    /\ InitRun
    /\ pc = "collect_demographics"
    /\ page_token = "tok_target"
    /\ idx = 1
    /\ day_window = NoWindow
    /\ \E k \in 0..MaxList : metrics = Prefix(DEMOGRAPHICS_METRICS, k)
    /\ \E k \in 0..MaxList : timeframes = Prefix(TimeframePool, k)
    /\ \E k \in 0..MaxList : dimensions = Prefix(DIMENSIONS, k)

\* One turn of the loop: get_demo and the rows appended.
CollectDemographicsFetch ==
    /\ pc = "collect_demographics"
    /\ idx <= ProductLen(metrics, timeframes, dimensions)
    /\ \E status \in Statuses, n \in 0..budget :
          /\ Get("get_demo", status)
          /\ IF status = "non-2xx"
             THEN /\ Raise("HTTPError")
                  /\ UNCHANGED <<idx, rows, calls, budget>>
             ELSE /\ budget' = budget - n
                  /\ idx' = idx + 1
                  /\ rows' = DemoTurn(n)
                  /\ calls' = Append(calls, DemoCall(n))
                  /\ UNCHANGED <<pc, error>>
    /\ UNCHANGED <<day_window, metrics, timeframes, dimensions, pages, page_token, extracted_at,
                   captures, locals, info, df, collectors, loads, warehouse>>

\* The product is exhausted: return pd.DataFrame(rows).
CollectDemographicsReturn ==
    /\ pc = "collect_demographics"
    /\ idx > ProductLen(metrics, timeframes, dimensions)
    /\ pc' = "returned"
    /\ df' = DataFrame(DemoColumns, rows)
    /\ UNCHANGED <<day_window, error, now, metrics, timeframes, dimensions, pages, page_token,
                   extracted_at, captures, idx, rows, calls, locals, info, requests,
                   collectors, loads, warehouse, budget>>

NextDemo == CollectDemographicsFetch \/ CollectDemographicsReturn

SpecDemo == InitDemo /\ [][NextDemo]_vars


-----------------------------------------------------------------------------
(* main() with its five collectors replaced by stand-ins that return any   *)
(* table of up to MaxRows rows, or raise: what main does with a collector's *)
(* result, whatever the collector.                                          *)

\* A stand-in's table: n rows carrying the extracted_at it was given.
StubFrame(columns, n, ts) ==
    DataFrame(columns, [i \in 1..n |-> [value |-> i, extracted_at |-> ts]])

\* A stand-in for collect_demographics: n rows of the first combination.
StubDemoFrame(n) ==
    DataFrame(DemoColumns,
              DemoRows(ProductAt(metrics, timeframes, dimensions, 1),
                       FlattenDemo(ApiResults("demo", n))))

\* What every stand-in leaves alone.
StubUnchanged ==
    UNCHANGED <<day_window, metrics, timeframes, dimensions, pages, page_token, extracted_at,
                captures, idx, rows, calls, locals, info, requests, loads, warehouse,
                budget>>

StubDemographics ==
    /\ pc = "demographics"
    /\ now' = now + 1
    /\ \E raised \in BOOLEAN, n \in 0..MaxRows :
          IF raised
          THEN /\ Raise("CollectorError")
               /\ collectors' = Ended("demographics", "raised", None)
               /\ df' = df
          ELSE /\ collectors' = Ended("demographics", "returned", n)
               /\ main_demographics(StubDemoFrame(n))
    /\ StubUnchanged

StubMedia ==
    /\ pc = "media"
    /\ now' = now + 1
    /\ \E raised \in BOOLEAN, n \in 0..MaxRows :
          IF raised
          THEN /\ Raise("CollectorError")
               /\ collectors' = Ended("media", "raised", None)
               /\ df' = df
          ELSE /\ collectors' = Ended("media", "returned", n)
               /\ main_media(StubFrame(MediaColumns, n, ExtractedAtArg("media")))
    /\ StubUnchanged

StubFollows ==
    /\ pc = "follows"
    /\ now' = now + 1
    /\ \E raised \in BOOLEAN, n \in 0..MaxRows :
          IF raised
          THEN /\ Raise("CollectorError")
               /\ collectors' = Ended("follows", "raised", None)
               /\ df' = df
          ELSE /\ collectors' = Ended("follows", "returned", n)
               /\ main_follows(StubFrame(FollowsColumns, n, ExtractedAtArg("follows")))
    /\ StubUnchanged

StubFollowers ==
    /\ pc = "followers"
    /\ now' = now + 1
    /\ \E raised \in BOOLEAN, n \in 0..MaxRows :
          IF raised
          THEN /\ Raise("CollectorError")
               /\ collectors' = Ended("followers", "raised", None)
               /\ df' = df
          ELSE /\ collectors' = Ended("followers", "returned", n)
               /\ main_followers(StubFrame(FollowersColumns, n,
                                           ExtractedAtArg("followers")))
    /\ StubUnchanged

StubAds ==
    /\ pc = "ads_info"
    /\ now' = now + 1
    /\ \E raised \in BOOLEAN, n \in 0..MaxRows :
          IF raised
          THEN /\ Raise("CollectorError")
               /\ collectors' = Ended("ads", "raised", None)
               /\ df' = df
          ELSE /\ collectors' = Ended("ads", "returned", n)
               /\ main_ads(StubFrame(AdsColumns, n, ExtractedAtArg("ads")))
    /\ StubUnchanged

NextMain ==
    \/ GetPages
    \/ ResolvePageToken
    \/ StubDemographics
    \/ LoadDemographics
    \/ StubMedia
    \/ LoadMedia
    \/ StubFollows
    \/ LoadFollows
    \/ StubFollowers
    \/ LoadFollowers
    \/ StubAds
    \/ LoadAds

SpecMain == Init /\ [][NextMain]_vars


-----------------------------------------------------------------------------
(* _day_window_ts on its own, over dates and zones *)

\* The days on which a zone of the model changes its UTC offset: 2026-03-08
\* and 2026-11-01 (America/Los_Angeles).
ChangeDays == {20520, 20758}

\* The dates given to the helper: the change days and the days around them.
WindowDays == {c + k : c \in ChangeDays, k \in (0 - MaxDays)..MaxDays}

\* The zones given to the helper: the two the collectors name, and UTC.
WindowZones == {"America/Sao_Paulo", "America/Los_Angeles", "UTC"}

\* A caller is about to call _day_window_ts(d, tz_name).
InitWindow ==
    /\ InitRun
    /\ pc = "_day_window_ts"
    /\ page_token = NoneStr
    /\ idx = 0
    /\ metrics = DEMOGRAPHICS_METRICS
    /\ timeframes = TIMEFRAMES
    /\ dimensions = DIMENSIONS
    /\ \E d \in WindowDays, tz \in WindowZones :
          day_window = [d |-> d, tz_name |-> tz, since |-> None, until |-> None]

\* The call returns (int(since_dt.timestamp()), int(until_dt.timestamp())).
DayWindowCall ==
    /\ pc = "_day_window_ts"
    /\ LET window == _day_window_ts(day_window.d, day_window.tz_name)
       IN day_window' = [day_window EXCEPT !.since = window[1], !.until = window[2]]
    /\ pc' = "returned"
    /\ UNCHANGED <<error, now, metrics, timeframes, dimensions, pages, page_token,
                   extracted_at, captures, idx, rows, calls, locals, info, df, requests,
                   collectors, loads, warehouse, budget>>

NextWindow == DayWindowCall

SpecWindow == InitWindow /\ [][NextWindow]_vars


-----------------------------------------------------------------------------
(* The claims *)

\* The collectors in the order main calls them, and the table of each.
CollectorOrder == <<"demographics", "media", "follows", "followers", "ads">>

TableOrder ==
    <<"fact_instagram_demographics", "fact_instagram_media_product_24h",
      "fact_instagram_follows_unfollows_day", "fact_instagram_account_daily",
      "fact_ads_daily">>

\* The place of a collector, and of a table, in main.
StepOf(name) == CHOOSE k \in 1..Len(CollectorOrder) : CollectorOrder[k] = name

StepOfTable(table) == CHOOSE k \in 1..Len(TableOrder) : TableOrder[k] = table

\* The collector of that name returned a table of no row.
ReturnedEmpty(i, name) ==
    /\ collectors[i].name = name
    /\ collectors[i].result = "returned"
    /\ collectors[i].nrows = 0

\* C1: when the demographics, media-product or followers-snapshot collector
\* returns a table of no row, the run has ended with an error at that step:
\* no collector was called after it, and load_to_bigquery was called neither
\* for its table nor for a later one.
C1_EmptyRequiredTableAborts ==
    \A i \in 1..Len(collectors) :
        \A name \in {"demographics", "media", "followers"} :
            ReturnedEmpty(i, name) =>
                /\ pc = "failed"
                /\ error # ""
                /\ i = Len(collectors)
                /\ \A j \in 1..Len(loads) : StepOfTable(loads[j][1]) < StepOf(name)

\* C1, its case: the followers-snapshot collector returned no row after three
\* tables were loaded, and the run failed there.
C1_Witness ==
    /\ pc = "failed"
    /\ Len(collectors) = 4
    /\ ReturnedEmpty(4, "followers")
    /\ Len(warehouse) = 3

\* C2, as claimed: when the follows/unfollows collector returns a table of no
\* row, load_to_bigquery is not called for the follows/unfollows table, and
\* the run goes on (it does not fail at that step).
C2_EmptyFollowsSkipsLoad ==
    \A i \in 1..Len(collectors) :
        ReturnedEmpty(i, "follows") =>
            /\ \A j \in 1..Len(loads) : loads[j][1] # "fact_instagram_follows_unfollows_day"
            /\ ~(i = Len(collectors) /\ pc = "failed" /\ Len(loads) = 2)


\* The ads collector returned after get_ads_insights_daily gave [].
AdsInsightsEmpty ==
    /\ Len(collectors) = 5
    /\ collectors[5].name = "ads"
    /\ collectors[5].result = "returned"
    /\ calls # <<>>
    /\ calls[1].returned = <<>>

\* C3: when get_ads_insights_daily returns [], collect_ads_spend_yesterday
\* returns a table of no row whose columns are exactly the nine of the ads
\* table, and main does not fail, does not call load_to_bigquery for
\* fact_ads_daily, and ends well.
C3_EmptyAdsKeepsSchemaAndRunSucceeds ==
    AdsInsightsEmpty =>
        /\ df.rows = <<>>
        /\ df.columns = <<"metric_date", "ad_account_id", "level", "currency",
                          "timezone_name", "spend", "impressions", "clicks",
                          "extracted_at">>
        /\ pc = "done"
        /\ error = ""
        /\ \A j \in 1..Len(loads) : loads[j][1] # "fact_ads_daily"

\* C3, its case: a run that ended after the ads insights came back empty.
C3_Witness == AdsInsightsEmpty /\ pc = "done" /\ Len(warehouse) = 4

\* C4: main reads the clock for extracted_at once, when the token is
\* resolved and before any collector is called, and every row of every table
\* given to load_to_bigquery carries that reading (no collector's own).
C4_OneRunTimestamp ==
    /\ captures <= 1
    /\ (captures = 1) = (page_token # NoneStr)
    /\ (captures = 0) = (extracted_at = NoTimestamp)
    /\ collectors # <<>> => (captures = 1 /\ extracted_at.t < now)
    /\ pc = "done" => captures = 1
    /\ captures = 1 => extracted_at.kind = "utc"
    /\ \A j \in 1..Len(loads) :
          \A i \in 1..Len(loads[j][2].rows) :
              loads[j][2].rows[i].extracted_at = extracted_at

\* C4, its case: a run that gave all five tables to the loader.
C4_Witness == pc = "done" /\ Len(loads) = 5 /\ Len(warehouse) = 5

\* The tables loaded so far are the first ones of main's order, each once.
LoadedInOrder ==
    /\ Len(loads) <= Len(TableOrder)
    /\ \A j \in 1..Len(loads) : loads[j][1] = TableOrder[j]
    /\ \A j \in 1..Len(loads) :
          /\ Len(collectors) >= j
          /\ collectors[j].name = CollectorOrder[j]
          /\ collectors[j].result = "returned"
    /\ \A j \in 1..Len(warehouse) : warehouse[j] = loads[j]

\* What the destination holds is never taken back.
NoRollback ==
    /\ Len(warehouse') >= Len(warehouse)
    /\ \A j \in 1..Len(warehouse) : warehouse'[j] = warehouse[j]

\* C5: no step of a run, a failing one included, removes a table the loader
\* appended earlier in the run; and the tables are loaded at most once each,
\* in the order demographics, media-product, follows/unfollows,
\* followers-snapshot, ads, each only after the steps before it completed.
C5_NoRollbackFixedOrder == [][NoRollback]_vars /\ []LoadedInOrder

\* C5, its case: a run that failed with two tables appended.
C5_Witness == pc = "failed" /\ Len(warehouse) = 2 /\ Len(loads) = 3


\* The pages of the listing that are linked to the target account.
MatchingPages == {i \in 1..Len(pages) : pages[i].ig = IG_USER_ID}

\* Nothing of the run beyond the listing request has happened.
NothingStarted ==
    /\ captures = 0
    /\ extracted_at = NoTimestamp
    /\ page_token = NoneStr
    /\ collectors = <<>>
    /\ loads = <<>>
    /\ Len(requests) = 1

\* One step of the token resolver: a failed listing call ends the run; a
\* listing with no matching page ends the run; and a token that is returned
\* is the access_token of a matching page of the listing.
TokenStep ==
    /\ (pc = "get_pages" /\ requests'[Len(requests')].status = "non-2xx") =>
          (pc' = "failed" /\ NothingStarted')
    /\ (pc = "resolve" /\ MatchingPages = {}) => (pc' = "failed" /\ NothingStarted')
    /\ (pc = "resolve" /\ pc' # "failed") =>
          \E i \in MatchingPages :
              page_token' = pages[i].access_token /\ page_token' # NoneStr

\* C6: get_page_token returns the access token of a page of the listing whose
\* linked business-account id is the configured one; when no page matches, or
\* the listing call fails, the run ends with an error before extracted_at is
\* read, before any collector is called and before any load.
C6_TokenResolver ==
    /\ [][TokenStep]_vars
    /\ []((pc = "failed" /\ page_token = NoneStr) => NothingStarted)

\* C6, its case: a listing of two pages, none linked to the target, ended the run.
C6_Witness ==
    /\ pc = "failed"
    /\ error = "RuntimeError: page token not found"
    /\ NothingStarted

\* The 30 requests of a full run, in order.
ExpectedRequests ==
    <<"get_pages">>
    \o [i \in 1..18 |-> "get_demo"]
    \o [i \in 1..7 |-> "get_day_totals_by_media_product"]
    \o <<"get_follows_and_unfollows_by_day", "get_followers_count",
         "get_ad_account_info", "get_ads_insights_daily">>

\* C7: every fetcher call is one GET, never repeated: the requests of a run
\* are the first ones of the 30 of a full run (1 listing, 18 demographics,
\* 7 media-product, 1 follow/unfollow, 1 followers-count, 1 account-info,
\* 1 ad-insights); a request answered non-2xx is the last of the run, which
\* then has failed with the HTTP error; a run that ends well issued all 30.
C7_OneGetPerCallNoRetry ==
    /\ Len(ExpectedRequests) = 30
    /\ Len(requests) <= 30
    /\ \A i \in 1..Len(requests) : requests[i].fetcher = ExpectedRequests[i]
    /\ \A i \in 1..Len(requests) :
          requests[i].status = "non-2xx" =>
              (i = Len(requests) /\ pc = "failed" /\ error = "HTTPError")
    /\ pc = "done" => Len(requests) = 30

\* C7, its case: a run that ended well.
C7_Witness == pc = "done" /\ Len(requests) = 30 /\ error = ""

\* C7, its other case: a run ended by a non-2xx answer in the middle of the
\* demographics requests.
C7_WitnessAbort ==
    /\ pc = "failed"
    /\ Len(requests) = 9
    /\ requests[9].status = "non-2xx"

\* The day before the one it is in America/Sao_Paulo (UTC-3) at instant t.
SaoPauloYesterday(t) == ((t - 3 * 3600) \div 86400) - 1

\* C8: collect_follows_unfollows_yesterday, when the fetch returns [], makes
\* exactly the two rows FOLLOWER 0 and NON_FOLLOWER 0, and when it returns
\* n >= 1 rows, exactly those n rows; every row has metric_date yesterday in
\* America/Sao_Paulo and since / until the midnights that bound that day.
C8_FollowsZeroFill ==
    pc = "load_follows" =>
        LET data == calls[1].returned
            day == SaoPauloYesterday(now - 1)
            since == day * 86400 + 3 * 3600
            expected == IF data = <<>>
                        THEN <<[follow_type |-> "FOLLOWER", value |-> 0],
                               [follow_type |-> "NON_FOLLOWER", value |-> 0]>>
                        ELSE data
        IN /\ Len(df.rows) = Len(expected)
           /\ \A i \in 1..Len(expected) :
                 /\ df.rows[i].follow_type = expected[i].follow_type
                 /\ df.rows[i].value = expected[i].value
                 /\ df.rows[i].metric_date = day
                 /\ df.rows[i].since = since
                 /\ df.rows[i].until = since + 86400
           /\ calls[1].since = since
           /\ calls[1].until = since + 86400

\* C8, its case: the fetch returned [] and the table has the two zero rows.
C8_Witness ==
    /\ pc = "load_follows"
    /\ calls[1].returned = <<>>
    /\ Len(df.rows) = 2
    /\ df.rows[1].value = 0

\* C8, its other case: the fetch returned one row, in a run during which
\* the day changed in Sao Paulo after the media-product collector started.
C8_WitnessRows ==
    /\ pc = "load_follows"
    /\ Len(calls[1].returned) = 1
    /\ Len(df.rows) = 1
    /\ df.rows[1].follow_type = "UNKNOWN"
    /\ warehouse[2][2].rows[1].metric_date = df.rows[1].metric_date - 1

\* The rows get_demo returned in the first i calls, counted.
RECURSIVE ReturnedUpTo(_)
ReturnedUpTo(i) == IF i = 0 THEN 0 ELSE ReturnedUpTo(i - 1) + Len(calls[i].returned)

Elements(list) == {list[i] : i \in 1..Len(list)}

\* C9: when collect_demographics returns, get_demo was called exactly once
\* for each (metric, timeframe, dimension) of the cross-product of the lists,
\* the table has as many rows as the calls returned in all, and the rows are
\* those returned, call after call, each with the metric, timeframe and
\* dimension of its call.
C9_DemographicsRowsPerTriple ==
    pc = "returned" =>
        /\ Len(calls) = Len(metrics) * Len(timeframes) * Len(dimensions)
        /\ Len(requests) = Len(calls)
        /\ \A m \in Elements(metrics), t \in Elements(timeframes),
              d \in Elements(dimensions) :
              Cardinality({i \in 1..Len(calls) :
                              calls[i].triple =
                                  [metric |-> m, timeframe |-> t, dimension |-> d]}) = 1
        /\ Len(df.rows) = ReturnedUpTo(Len(calls))
        /\ \A i \in 1..Len(calls) :
              \A k \in 1..Len(calls[i].returned) :
                  LET r == df.rows[ReturnedUpTo(i - 1) + k] IN
                  /\ r.metric = calls[i].triple.metric
                  /\ r.timeframe = calls[i].triple.timeframe
                  /\ r.dimension = calls[i].triple.dimension
                  /\ r.dimension_value = calls[i].returned[k].dimension_value
                  /\ r.value = calls[i].returned[k].value

\* C9, its case: lists of two, and rows from two different combinations, one
\* of them without dimension value.
C9_Witness ==
    /\ pc = "returned"
    /\ Len(calls) = 8
    /\ Len(df.rows) >= 3
    /\ df.rows[1].dimension # df.rows[3].dimension
    /\ \E i \in 1..Len(df.rows) : df.rows[i].dimension_value = NoneStr

\* get_followers_count has just been answered 2xx.
FollowersAnswered ==
    /\ Len(collectors) = 4
    /\ collectors[4].name = "followers"
    /\ calls # <<>>

\* C10: collect_followers_snapshot_daily returns exactly one row, dated today
\* in America/Sao_Paulo, when the response has followers_count; when it has
\* not, the collector raises, no row is made, the followers-snapshot table is
\* not loaded and the ads step is not entered.
C10_FollowersSnapshot ==
    FollowersAnswered =>
        LET data == calls[1].returned
            today == SaoPauloYesterday(now - 1) + 1
        IN IF data.has_followers_count
           THEN /\ collectors[4].result = "returned"
                /\ Len(df.rows) = 1
                /\ df.rows[1].metric_date = today
                /\ df.rows[1].followers_count = data.followers_count
                /\ pc = "load_followers"
           ELSE /\ collectors[4].result = "raised"
                /\ pc = "failed"
                /\ error # ""
                /\ df.columns # FollowersColumns
                /\ Len(loads) = 3
                /\ \A j \in 1..Len(loads) : loads[j][1] # "fact_instagram_account_daily"
                /\ \A j \in 1..Len(requests) :
                      requests[j].fetcher \notin
                          {"get_ad_account_info", "get_ads_insights_daily"}

\* C10, its case: a response without followers_count ended the run.
C10_Witness ==
    /\ FollowersAnswered
    /\ ~calls[1].returned.has_followers_count
    /\ pc = "failed"
    /\ Len(warehouse) = 3

\* The wall clock of zone tz at the instant t, in seconds since 1970-01-01
\* 00:00 of that wall clock.
WallClock(tz, t) == t + UtcOffsetAt(tz, t)

\* _day_window_ts has returned to its caller.
WindowReturned == pc = "returned" /\ day_window.since # None

\* C11, as stated: for every date D and zone Z, _day_window_ts(D, Z) returns
\* since = the epoch second of D 00:00 in Z and until = since + 86400 exactly.
C11_UntilIsSincePlus86400 ==
    WindowReturned =>
        /\ WallClock(day_window.tz_name, day_window.since) = day_window.d * 86400
        /\ day_window.until = day_window.since + 86400

\* C11, amended: for every date D and zone Z, _day_window_ts(D, Z) returns
\* since = the epoch second of D 00:00 in Z and until = the epoch second of
\* (D+1) 00:00 in Z; until is since + 86400 exactly when Z has the same UTC
\* offset at both instants, and since + 86400 less the change of the offset
\* otherwise.
C11_WindowIsMidnightToMidnight ==
    WindowReturned =>
        LET tz == day_window.tz_name
            since == day_window.since
            until == day_window.until
        IN /\ WallClock(tz, since) = day_window.d * 86400
           /\ WallClock(tz, until) = (day_window.d + 1) * 86400
           /\ UtcOffsetAt(tz, since) = UtcOffsetAt(tz, until) => until = since + 86400
           /\ until - since = 86400 - (UtcOffsetAt(tz, until) - UtcOffsetAt(tz, since))

\* C11, its case: the window of 2026-03-08 in America/Los_Angeles, the day
\* the clocks go forward there, is 82800 seconds long.
C11_Witness ==
    /\ WindowReturned
    /\ day_window.tz_name = "America/Los_Angeles"
    /\ day_window.d = 20520
    /\ day_window.until - day_window.since = 82800

\* C11, its other cases: a 90000-second window (2026-11-01 in
\* America/Los_Angeles) and an ordinary 86400-second one.
C11_WitnessLongDay ==
    /\ WindowReturned
    /\ day_window.d = 20758
    /\ day_window.until - day_window.since = 90000

C11_WitnessOrdinaryDay ==
    /\ WindowReturned
    /\ day_window.tz_name = "America/Sao_Paulo"
    /\ day_window.d = 20758
    /\ day_window.until - day_window.since = 86400

\* main stands before a call of load_to_bigquery.
AtLoad ==
    pc \in {"load_demographics", "load_media", "load_follows", "load_followers",
            "load_ads"}

\* C12: in every run of main, whatever the API answers, load_to_bigquery is
\* never called with a table of zero rows: main reaches each of its five
\* calls only with a table of at least one row.
C12_LoaderNeverGivenEmptyTable ==
    /\ AtLoad => Len(df.rows) >= 1
    /\ \A j \in 1..Len(loads) : Len(loads[j][2].rows) >= 1

\* C12, its case: all five tables were given to the loader in a run whose
\* follows request was answered with no row (the table given is the two
\* zero rows the collector made up).
C12_Witness ==
    /\ Len(loads) = 5
    /\ collectors[3].name = "follows"
    /\ Len(loads[3][2].rows) = 2
    /\ loads[3][2].rows[1].value = 0
    /\ loads[3][2].rows[2].value = 0

=============================================================================
